---- MODULE Spec2Model ----
(***************************************************************************)
(* Argument conversion and parameter binding of the go-hdb driver          *)
(* (driver/convert.go): isNilArg, reorderNVArgs, convertArg,               *)
(* convertExecArgs, convertQueryArgs and convertCallArgs.                  *)
(*                                                                         *)
(* Each entry point is one action: it draws its inputs (fields, nvargs,    *)
(* lobChunkSize) from bounded sets, runs the whole function and records    *)
(* the caller's argument array before (nvargs0) and after (nvargs) the     *)
(* call, the returned values (res) and the sequence of calls made on the   *)
(* collaborators (log: Valuer.Value, field.Convert, LobInDescr.FetchNext). *)
(* Go slices are 0-based; TLA+ sequences are 1-based: nvargs[k] of the     *)
(* code is nvargs[k+1] here, row and position numbers stay 0-based.        *)
(***************************************************************************)
EXTENDS Integers, Sequences, FiniteSets, TLC

VARIABLES op, fields, nvargs0, nvargs, lobChunkSize, pos, name, res, log

vars == <<op, fields, nvargs0, nvargs, lobChunkSize, pos, name, res, log>>

(***************************************************************************)
(* Bounds of the model.                                                    *)
(***************************************************************************)
MaxExecFields == 2
MaxExecArgs == 4
MaxQueryLen == 2
MaxDepth == 2
MaxCallFields == 2
MaxTableArgs == 1
MaxNamed == 3
MaxReorderLen == 3
MaxChunkSize == 1

(***************************************************************************)
(* Caller-side values (driver.Value / any), by dynamic type.               *)
(***************************************************************************)
Nil == [k |-> "nil"]
Prim(n) == [k |-> "prim", v |-> n]
\* a non-Valuer pointer to x (x = Nil: a nil pointer)
Ptr(x) == [k |-> "ptr", to |-> x]
\* a driver.Valuer whose Value() returns (x, nil)
Valuer(x) == [k |-> "valuer", out |-> x]
\* a driver.Valuer whose Value() returns an error
ValuerErr == [k |-> "valuererr"]
\* a driver.Valuer whose Value() returns the Valuer itself
ValuerSelf == [k |-> "valuerself"]
\* a pointer to x whose pointer type implements driver.Valuer
ValuerPtr(x, y) == [k |-> "valuerptr", to |-> x, out |-> y]
\* an io.Reader holding size bytes; broken: its Read fails
Reader(size, broken) == [k |-> "reader", size |-> size, broken |-> broken]
\* sql.Out{Dest: dest, In: in}
Out(in, dest) == [k |-> "out", in |-> in, dest |-> dest]
\* a *sql.Rows
Rows == [k |-> "rows"]

\* a primitive no field converts (out of the range of every field type)
BadPrim == [k |-> "badprim"]

(***************************************************************************)
(* Protocol-side values.                                                   *)
(***************************************************************************)
\* the protocol value field.Convert makes of arg for a field of type code tc
Converted(tc, arg) == [k |-> "converted", tc |-> tc, of |-> arg]
\* a *p.LobInDescr over a reader: fetched counts FetchNext calls, lastData is
\* Opt.IsLastData()
LobInDescr(rd, fetched, lastData) ==
    [k |-> "lob", rd |-> rd, fetched |-> fetched, lastData |-> lastData]

ParameterField(n, in, out, tc) == [name |-> n, in |-> in, out |-> out, tc |-> tc]
NamedValue(ordinal, n, v) == [Ordinal |-> ordinal, Name |-> n, Value |-> v]

(***************************************************************************)
(* Errors, by the message that builds them.                                *)
(***************************************************************************)
Error(kind, at, n, a, b) == [kind |-> kind, at |-> at, name |-> n, a |-> a, b |-> b]
NoErr == Error("none", 0, "", 0, 0)

Event(ev, at, arg) == [ev |-> ev, at |-> at, arg |-> arg]

(***************************************************************************)
(* isNilArg                                                                *)
(***************************************************************************)
RECURSIVE isNilArg(_)
isNilArg(v) ==
    IF v.k = "nil" THEN TRUE
    ELSE IF v.k \notin {"ptr", "valuerptr"} THEN FALSE
    ELSE isNilArg(v.to)

\* arg.(driver.Valuer)
IsValuer(v) == v.k \in {"valuer", "valuererr", "valuerself", "valuerptr"}

(***************************************************************************)
(* field.Convert and LobInDescr.FetchNext: the protocol package.           *)
(***************************************************************************)
Convert(field, arg) ==
    IF arg.k = "badprim" \/ (arg.k = "reader" /\ field.tc # "lob")
    THEN [ok |-> FALSE, val |-> Nil]
    ELSE IF arg.k = "reader"
    THEN [ok |-> TRUE, val |-> LobInDescr(arg, 0, FALSE)]
    ELSE [ok |-> TRUE, val |-> Converted(field.tc, arg)]

FetchNext(descr, chunkSize) ==
    IF descr.rd.broken
    THEN [ok |-> FALSE, val |-> descr]
    ELSE [ok |-> TRUE,
          val |-> LobInDescr(descr.rd, descr.fetched + 1, descr.rd.size <= chunkSize)]

(***************************************************************************)
(* convertArg: the unwrap loop, then field.Convert.                        *)
(* st: "ok", "err" (an error is returned) or "hang" (the loop never ends). *)
(***************************************************************************)
\* an if in place of the for: one Value() call at most
unwrapOnce(arg, at, lg) ==
    IF isNilArg(arg) \/ ~IsValuer(arg) THEN [st |-> "ok", val |-> arg, log |-> lg]
    ELSE IF arg.k = "valuererr"
         THEN [st |-> "err", val |-> Nil, log |-> Append(lg, Event("Value", at, arg))]
    ELSE IF arg.k = "valuerself"
         THEN [st |-> "ok", val |-> arg, log |-> Append(lg, Event("Value", at, arg))]
    ELSE [st |-> "ok", val |-> arg.out, log |-> Append(lg, Event("Value", at, arg))]

RECURSIVE unwrap(_, _, _)
unwrap(arg, at, lg) ==
    IF isNilArg(arg) THEN [st |-> "ok", val |-> arg, log |-> lg]
    ELSE IF ~IsValuer(arg) THEN [st |-> "ok", val |-> arg, log |-> lg]
    ELSE IF arg.k = "valuererr"
         THEN [st |-> "err", val |-> Nil, log |-> Append(lg, Event("Value", at, arg))]
    ELSE IF arg.k = "valuerself"
         THEN [st |-> "hang", val |-> Nil, log |-> Append(lg, Event("Value", at, arg))]
    ELSE unwrap(arg.out, at, Append(lg, Event("Value", at, arg)))

convertArg(field, arg, at, lg) ==
    LET u == unwrap(arg, at, lg) IN
    IF u.st # "ok" THEN u
    ELSE LET c == Convert(field, u.val) IN
         [st |-> IF c.ok THEN "ok" ELSE "err",
          val |-> c.val,
          log |-> Append(u.log, Event("Convert", at, u.val))]

(***************************************************************************)
(* The checks and the conversion step the exec and the query loop share.   *)
(***************************************************************************)
\* the check of the name is left out
inputOnlyNoName(field, nvarg, at) ==
    IF field.out THEN Error("outField", at, field.name, 0, 0)
    ELSE IF nvarg.Value.k = "out" THEN Error("outArg", at, nvarg.Name, 0, 0)
    ELSE NoErr

\* field.Out(), nvarg.Value.(sql.Out), nvarg.Name != ""
inputOnly(field, nvarg, at) ==
    IF field.out THEN Error("outField", at, field.name, 0, 0)
    ELSE IF nvarg.Value.k = "out" THEN Error("outArg", at, nvarg.Name, 0, 0)
    ELSE IF nvarg.Name # "" THEN Error("named", at, nvarg.Name, 0, 0)
    ELSE NoErr

\* fetch first lob chunk: val is the value left in the slot, more tells
\* whether the descriptor did not signal IsLastData
fetchFirst(val, at, chunkSize, lg) ==
    IF val.k # "lob"
    THEN [st |-> "ok", err |-> NoErr, val |-> val, more |-> FALSE, log |-> lg]
    ELSE LET f == FetchNext(val, chunkSize)
             lg2 == Append(lg, Event("FetchNext", at, val))
         IN IF ~f.ok
            THEN [st |-> "err", err |-> Error("lob", at, "", 0, 0), val |-> f.val,
                  more |-> FALSE, log |-> lg2]
            ELSE [st |-> "ok", err |-> NoErr, val |-> f.val,
                  more |-> ~f.val.lastData, log |-> lg2]

\* nvarg.Value, err = convertArg(...), then the first lob chunk
convertInArg(field, arg, at, chunkSize, lg) ==
    LET c == convertArg(field, arg, at, lg) IN
    IF c.st = "hang"
    THEN [st |-> "hang", err |-> NoErr, val |-> arg, more |-> FALSE, log |-> c.log]
    ELSE IF c.st = "err"
    THEN [st |-> "err", err |-> Error("conversion", at, field.name, 0, 0),
          val |-> c.val, more |-> FALSE, log |-> c.log]
    ELSE fetchFirst(c.val, at, chunkSize, c.log)

NoCallArgs == [inFields |-> <<>>, outFields |-> <<>>, inArgs |-> <<>>, outArgs |-> <<>>]

\* what an entry point leaves behind: st is "ok" (err == nil), "err", "panic"
\* or "hang"; nil tells that the returned slice or *callArgs is nil
Result(st, err, nil, recs, callArgs, nv, lg) ==
    [st |-> st, err |-> err, nil |-> nil, recs |-> recs, callArgs |-> callArgs,
     nvargs |-> nv, log |-> lg]

(***************************************************************************)
(* convertExecArgs                                                         *)
(***************************************************************************)
\* (len(nvargs) % numField) != 0
notMultiple(numArgs, numField) == (numArgs % numField) # 0

\* the last row is not added unless it has more lob data
addLobDataRecOnlyMore(recs, i, numRow, hasAddLobData) ==
    IF hasAddLobData THEN Append(recs, i) ELSE recs

\* if hasAddLobData || i == numRow-1 { append }
addLobDataRec(recs, i, numRow, hasAddLobData) ==
    IF hasAddLobData \/ i = numRow - 1 THEN Append(recs, i) ELSE recs

\* the two loops, at argument k = (i*numField)+j
RECURSIVE execLoop(_, _, _, _, _, _, _)
execLoop(F, chunkSize, k, nv, hasAddLobData, recs, lg) ==
    LET numField == Len(F)
        numRow == Len(nv) \div numField
        i == k \div numField
        j == k % numField
    IN
    IF k = numRow * numField
    THEN Result("ok", NoErr, FALSE, recs, NoCallArgs, nv, lg)
    ELSE
    LET field == F[j + 1]
        nvarg == nv[k + 1]
        rej == inputOnly(field, nvarg, k)
    IN
    IF rej # NoErr THEN Result("err", rej, TRUE, <<>>, NoCallArgs, nv, lg)
    ELSE
    LET c == convertInArg(field, nvarg.Value, k, chunkSize, lg)
        nv2 == [nv EXCEPT ![k + 1].Value = c.val]
        has == (IF j = 0 THEN FALSE ELSE hasAddLobData) \/ c.more
    IN
    IF c.st # "ok" THEN Result(c.st, c.err, TRUE, <<>>, NoCallArgs, nv2, c.log)
    ELSE execLoop(F, chunkSize, k + 1, nv2, has,
                  IF j = numField - 1 THEN addLobDataRec(recs, i, numRow, has) ELSE recs,
                  c.log)

convertExecArgs(F, nv, chunkSize) ==
    IF Len(F) = 0
    THEN \* len(nvargs) % 0: integer divide by zero
         Result("panic", NoErr, TRUE, <<>>, NoCallArgs, nv, <<>>)
    ELSE IF notMultiple(Len(nv), Len(F))
    THEN Result("err", Error("arity", 0, "", Len(nv), Len(F)), TRUE, <<>>, NoCallArgs, nv, <<>>)
    ELSE execLoop(F, chunkSize, 0, nv, FALSE, <<>>, <<>>)

(***************************************************************************)
(* convertQueryArgs                                                        *)
(***************************************************************************)
RECURSIVE queryLoop(_, _, _, _, _)
queryLoop(F, chunkSize, i, nv, lg) ==
    IF i = Len(F)
    THEN Result("ok", NoErr, TRUE, <<>>, NoCallArgs, nv, lg)
    ELSE
    LET field == F[i + 1]
        nvarg == nv[i + 1]
        rej == inputOnly(field, nvarg, i)
    IN
    IF rej # NoErr THEN Result("err", rej, TRUE, <<>>, NoCallArgs, nv, lg)
    ELSE
    LET c == convertInArg(field, nvarg.Value, i, chunkSize, lg)
        nv2 == [nv EXCEPT ![i + 1].Value = c.val]
    IN
    IF c.st # "ok" THEN Result(c.st, c.err, TRUE, <<>>, NoCallArgs, nv2, c.log)
    ELSE queryLoop(F, chunkSize, i + 1, nv2, c.log)

convertQueryArgs(F, nv, chunkSize) ==
    IF Len(nv) # Len(F)
    THEN Result("err", Error("arity", 0, "", Len(nv), Len(F)), TRUE, <<>>, NoCallArgs, nv, <<>>)
    ELSE queryLoop(F, chunkSize, 0, nv, <<>>)

(***************************************************************************)
(* reorderNVArgs                                                           *)
(***************************************************************************)
\* nvargs[i].Name != "" && nvargs[i].Name == name
nameMatches(nvarg, n) == nvarg.Name # "" /\ nvarg.Name = n

\* the entries in between are not shifted
moveToOverwrite(nv, p, i) == [nv EXCEPT ![p + 1] = nv[i + 1]]

\* tmp := nvargs[i]; for j := i; j > pos; j-- { nvargs[j] = nvargs[j-1] }; nvargs[pos] = tmp
moveTo(nv, p, i) ==
    [m \in 1..Len(nv) |->
        IF m - 1 = p THEN nv[i + 1]
        ELSE IF m - 1 > p /\ m - 1 <= i THEN nv[m - 1]
        ELSE nv[m]]

\* the loop from i on: it goes on after a match
RECURSIVE reorderFrom(_, _, _, _)
reorderFrom(p, n, nv, i) ==
    IF i >= Len(nv) THEN nv
    ELSE IF nameMatches(nv[i + 1], n) THEN reorderFrom(p, n, moveTo(nv, p, i), i + 1)
    ELSE reorderFrom(p, n, nv, i + 1)

\* nothing is moved
reorderNothing(p, n, nv) == nv

reorderNVArgs(p, n, nv) == reorderFrom(p, n, nv, p)

(***************************************************************************)
(* convertCallArgs                                                         *)
(***************************************************************************)
\* reorderNVArgs(i, field.Name(), prmnvargs), prmnvargs being nvargs[:len(fields)]
reorderPrm(i, field, nv, numField) ==
    reorderNVArgs(i, field.name, SubSeq(nv, 1, numField)) \o SubSeq(nv, numField + 1, Len(nv))

\* if field.In() { ... }: nvarg is the slot afterwards, dest the out.Dest of
\* the local copy of the sql.Out
callIn(field, nvarg, at, chunkSize, lg) ==
    LET isOut == nvarg.Value.k = "out"
        dest0 == IF isOut THEN nvarg.Value.dest ELSE Nil
        keep == [st |-> "ok", err |-> NoErr, nvarg |-> nvarg, dest |-> dest0,
                 log |-> lg, appended |-> FALSE]
    IN
    IF ~field.in THEN keep
    ELSE IF isOut
    THEN IF ~nvarg.Value.in
         THEN [keep EXCEPT !.st = "err", !.err = Error("inMismatch", at, field.name, 0, 0)]
         ELSE LET c == convertArg(field, nvarg.Value.dest, at, lg) IN
              IF c.st = "hang" THEN [keep EXCEPT !.st = "hang", !.log = c.log]
              ELSE IF c.st = "err"
              THEN [keep EXCEPT !.st = "err", !.dest = c.val, !.log = c.log,
                                !.err = Error("conversion", at, field.name, 0, 0)]
              \* nvarg.Value is the sql.Out still: no first chunk is fetched
              ELSE [keep EXCEPT !.dest = c.val, !.log = c.log, !.appended = TRUE]
    ELSE LET c == convertInArg(field, nvarg.Value, at, chunkSize, lg) IN
         [st |-> c.st, err |-> c.err, nvarg |-> [nvarg EXCEPT !.Value = c.val],
          dest |-> dest0, log |-> c.log, appended |-> c.st = "ok"]

\* a *sql.Rows destination is let through
callOutAnyDest(field, isOut, dest, at) ==
    IF ~field.out THEN NoErr
    ELSE IF ~isOut THEN Error("outMismatch", at, field.name, 0, 0)
    ELSE NoErr

\* if field.Out() { ... }: the error, if any
callOut(field, isOut, dest, at) ==
    IF ~field.out THEN NoErr
    ELSE IF ~isOut THEN Error("outMismatch", at, field.name, 0, 0)
    ELSE IF dest.k = "rows" THEN Error("outType", at, "", 0, 0)
    ELSE NoErr

\* callArgs.inArgs = append(callArgs.inArgs, *nvarg); inFields likewise
appendIn(ca, nvarg, field) ==
    [ca EXCEPT !.inArgs = Append(@, nvarg), !.inFields = Append(@, field)]

\* the field is left out
appendOutArgOnly(ca, nvarg, field) ==
    [ca EXCEPT !.outArgs = Append(@, nvarg)]

\* callArgs.outArgs = append(callArgs.outArgs, *nvarg); outFields likewise
appendOut(ca, nvarg, field) ==
    [ca EXCEPT !.outArgs = Append(@, nvarg), !.outFields = Append(@, field)]

\* table output args
RECURSIVE tableLoop(_, _, _, _)
tableLoop(i, nv, ca, lg) ==
    IF i >= Len(nv) THEN Result("ok", NoErr, FALSE, <<>>, ca, nv, lg)
    ELSE
    LET nvarg == nv[i + 1] IN
    IF nvarg.Value.k # "out"
    THEN Result("err", Error("tableNotOut", i, "", 0, 0), TRUE, <<>>, NoCallArgs, nv, lg)
    ELSE IF nvarg.Value.dest.k # "rows"
    THEN Result("err", Error("tableNotRows", i, "", 0, 0), TRUE, <<>>, NoCallArgs, nv, lg)
    ELSE tableLoop(i + 1, nv, [ca EXCEPT !.outArgs = Append(@, nvarg)], lg)

\* invalid argument name %s
unknownName(nvarg, field) == nvarg.Name # "" /\ nvarg.Name # field.name

RECURSIVE callLoop(_, _, _, _, _, _)
callLoop(F, chunkSize, i, nv, ca, lg) ==
    IF i = Len(F) THEN tableLoop(Len(F), nv, ca, lg)
    ELSE
    LET field == F[i + 1]
        nv1 == reorderPrm(i, field, nv, Len(F))
        nvarg == nv1[i + 1]
    IN
    IF unknownName(nvarg, field)
    THEN Result("err", Error("argName", i, nvarg.Name, 0, 0), TRUE, <<>>, NoCallArgs, nv1, lg)
    ELSE
    LET isOut == nvarg.Value.k = "out"
        in == callIn(field, nvarg, i, chunkSize, lg)
        nv2 == [nv1 EXCEPT ![i + 1] = in.nvarg]
        ca1 == IF in.appended THEN appendIn(ca, in.nvarg, field) ELSE ca
        oerr == callOut(field, isOut, in.dest, i)
    IN
    IF in.st # "ok" THEN Result(in.st, in.err, TRUE, <<>>, NoCallArgs, nv2, in.log)
    ELSE IF oerr # NoErr THEN Result("err", oerr, TRUE, <<>>, NoCallArgs, nv2, in.log)
    ELSE callLoop(F, chunkSize, i + 1, nv2,
                  IF field.out THEN appendOut(ca1, in.nvarg, field) ELSE ca1,
                  in.log)

convertCallArgs(F, nv, chunkSize) ==
    IF Len(nv) < Len(F)
    THEN Result("err", Error("arity", 0, "", Len(nv), Len(F)), TRUE, <<>>, NoCallArgs, nv, <<>>)
    ELSE callLoop(F, chunkSize, 0, nv, NoCallArgs, <<>>)

(***************************************************************************)
(* Inputs.                                                                 *)
(***************************************************************************)
\* the sequences over S of length n, and of length at most n
SeqsLen(S, n) == [1..n -> S]
SeqsUpTo(S, n) == UNION {SeqsLen(S, m) : m \in 0..n}

\* the caller's array for a sequence of <<Name, Value>> pairs
NamedValues(s) == [i \in 1..Len(s) |-> NamedValue(i, s[i][1], s[i][2])]

ChunkSizes == 1..MaxChunkSize

\* a positional argument that converts for every field
Plain == <<"", Prim(1)>>

ExecFieldSet ==
    {ParameterField("", TRUE, FALSE, "int"), ParameterField("", TRUE, FALSE, "lob"),
     ParameterField("", FALSE, TRUE, "int")}
ExecArgSet ==
    {Plain, <<"", Reader(1, FALSE)>>, <<"", Reader(2, FALSE)>>, <<"", Reader(1, TRUE)>>,
     <<"", Out(FALSE, Prim(1))>>, <<"a", Prim(1)>>}
ExecFields == SeqsUpTo(ExecFieldSet, MaxExecFields)
\* whole rows of any arguments, or any number of plain ones
ExecArgs(F) ==
    {NamedValues(s) : s \in
        SeqsUpTo({Plain}, MaxExecArgs) \cup
        (IF Len(F) = 0 THEN {}
         ELSE UNION {SeqsLen(ExecArgSet, r * Len(F)) : r \in 0..(MaxExecArgs \div Len(F))})}

QueryArgSet ==
    ExecArgSet \cup {<<"", Valuer(Prim(1))>>, <<"", ValuerErr>>, <<"", ValuerSelf>>}
QueryFields == SeqsUpTo(ExecFieldSet, MaxQueryLen)

\* the values a chain of at most d pointers and Valuers ends in or passes
Leaf == {Nil, Prim(1), BadPrim, ValuerErr, ValuerSelf, ValuerPtr(Nil, Prim(1))}
RECURSIVE Chain(_)
Chain(d) ==
    IF d = 0 THEN Leaf
    ELSE LET S == Chain(d - 1) IN
         S \cup {Ptr(x) : x \in S} \cup {Valuer(x) : x \in S}

\* one argument per field, or one chain for one field, or plain ones
QueryArgs(F) ==
    {NamedValues(s) : s \in
        SeqsUpTo({Plain}, MaxQueryLen + 1) \cup SeqsLen(QueryArgSet, Len(F)) \cup
        (IF Len(F) = 1 THEN {<<(<<"", x>>)>> : x \in Chain(MaxDepth)} ELSE {})}

Names == {"", "a", "b", "c"}

CallFieldSet ==
    {ParameterField("", i, o, "int") : i \in BOOLEAN, o \in BOOLEAN}
CallArgSet ==
    {Plain, <<"", BadPrim>>} \cup
    {<<"", Out(i, d)>> : i \in BOOLEAN, d \in {Prim(1), Rows}}
\* for a single field: large objects and Valuers, plain or in an sql.Out
CallFieldSet1 ==
    CallFieldSet \cup {ParameterField("", TRUE, o, "lob") : o \in BOOLEAN}
CallArgSet1 ==
    LET S == {Reader(1, FALSE), Reader(2, FALSE), Reader(1, TRUE), Valuer(Prim(1)),
              Valuer(Rows), ValuerErr, ValuerSelf, Nil}
    IN CallArgSet \cup {<<"", x>> : x \in S} \cup {<<"", Out(TRUE, x)>> : x \in S}
TableArgSet == {<<"", Out(FALSE, Rows)>>, <<"", Out(TRUE, Prim(1))>>, Plain}
NamedFieldSet == {ParameterField(n, TRUE, FALSE, "int") : n \in Names}

CallFields ==
    SeqsUpTo(CallFieldSet, MaxCallFields) \cup SeqsLen(CallFieldSet1, 1) \cup
    SeqsUpTo(NamedFieldSet, MaxNamed)

\* the arguments named ns[i], each holding its own value
Named(ns) == [i \in 1..Len(ns) |-> NamedValue(i, ns[i], Prim(i))]

IsNamedFields(F) == \A i \in 1..Len(F) : F[i] \in NamedFieldSet
CallArgs(F) ==
    IF F \in SeqsUpTo(CallFieldSet, MaxCallFields)
    THEN {NamedValues(s) : s \in SeqsUpTo({Plain}, Len(F) - 1)} \cup
         {NamedValues(h \o t) : h \in SeqsLen(CallArgSet, Len(F)),
                                t \in SeqsUpTo(TableArgSet, MaxTableArgs)}
    ELSE IF F \in SeqsLen(CallFieldSet1, 1)
    THEN {NamedValues(<<x>>) : x \in CallArgSet1}
    ELSE {Named(ns) : ns \in SeqsLen(Names, Len(F))}

ReorderArgs == {Named(ns) : ns \in SeqsUpTo(Names, MaxReorderLen)}

(***************************************************************************)
(* The state machine: one call of one entry point.                         *)
(***************************************************************************)
\* the values a call returns
Returned(r) ==
    [st |-> r.st, err |-> r.err, nil |-> r.nil, recs |-> r.recs, callArgs |-> r.callArgs]

Init ==
    /\ op = "none"
    /\ fields = <<>>
    /\ nvargs0 = <<>>
    /\ nvargs = <<>>
    /\ lobChunkSize = 1
    /\ pos = 0
    /\ name = ""
    /\ res = Returned(Result("none", NoErr, TRUE, <<>>, NoCallArgs, <<>>, <<>>))
    /\ log = <<>>

Call(o, F, A, c, r) ==
    /\ op' = o
    /\ fields' = F
    /\ nvargs0' = A
    /\ nvargs' = r.nvargs
    /\ lobChunkSize' = c
    /\ res' = Returned(r)
    /\ log' = r.log
    /\ UNCHANGED <<pos, name>>

ConvertExec ==
    /\ op = "none"
    /\ \E F \in ExecFields : \E A \in ExecArgs(F) : \E c \in ChunkSizes :
        Call("exec", F, A, c, convertExecArgs(F, A, c))

ConvertQuery ==
    /\ op = "none"
    /\ \E F \in QueryFields : \E A \in QueryArgs(F) : \E c \in ChunkSizes :
        Call("query", F, A, c, convertQueryArgs(F, A, c))

ConvertCall ==
    /\ op = "none"
    /\ \E F \in CallFields : \E A \in CallArgs(F) : \E c \in ChunkSizes :
        Call("call", F, A, c, convertCallArgs(F, A, c))

ReorderNVArgs ==
    /\ op = "none"
    /\ \E A \in ReorderArgs : \E p \in 0..Len(A) : \E n \in Names :
        /\ op' = "reorder"
        /\ pos' = p
        /\ name' = n
        /\ nvargs0' = A
        /\ nvargs' = reorderNVArgs(p, n, A)
        /\ res' = Returned(Result("ok", NoErr, TRUE, <<>>, NoCallArgs, <<>>, <<>>))
        /\ UNCHANGED <<fields, lobChunkSize, log>>

NextExec == ConvertExec
SpecExec == Init /\ [][NextExec]_vars

NextQuery == ConvertQuery
SpecQuery == Init /\ [][NextQuery]_vars

NextInputOnly == ConvertExec \/ ConvertQuery
SpecInputOnly == Init /\ [][NextInputOnly]_vars

NextCall == ConvertCall
SpecCall == Init /\ [][NextCall]_vars

NextReorder == ReorderNVArgs
SpecReorder == Init /\ [][NextReorder]_vars

Next == ConvertExec \/ ConvertQuery \/ ConvertCall \/ ReorderNVArgs
Spec == Init /\ [][Next]_vars

(***************************************************************************)
(* Properties.                                                             *)
(***************************************************************************)
Accepted(o) == op = o /\ res.st = "ok"
NumField == Len(fields)
NumRow == Len(nvargs0) \div Len(fields)
Elems(s) == {s[m] : m \in 1..Len(s)}
StrictlyIncreasing(s) == \A a, b \in 1..Len(s) : a < b => s[a] < s[b]

\* some LOB argument of row i did not signal IsLastData after its first FetchNext
OwesContinuation(i) ==
    \E j \in 0..(NumField - 1) :
        LET v == nvargs[(i * NumField) + j + 1].Value IN
        v.k = "lob" /\ v.fetched = 1 /\ ~v.lastData

\* C1: for every batch convertExecArgs accepts with r >= 1 rows, the returned
\* list is strictly increasing, ends with r-1, and holds exactly the rows in
\* which some LOB argument did not signal IsLastData after its first
\* FetchNext, plus the final row r-1.
C1_AddLobDataRows ==
    (Accepted("exec") /\ NumField > 0 /\ NumRow >= 1) =>
        /\ ~res.nil
        /\ StrictlyIncreasing(res.recs)
        /\ Len(res.recs) > 0
        /\ res.recs[Len(res.recs)] = NumRow - 1
        /\ Elems(res.recs) =
              {i \in 0..(NumRow - 1) : OwesContinuation(i)} \cup {NumRow - 1}

\* an accepted batch of three or more rows of which an inner row owes a
\* continuation and another one does not
C1_Witness ==
    /\ Accepted("exec") /\ NumField > 0 /\ NumRow >= 3
    /\ \E i \in 0..(NumRow - 2) : OwesContinuation(i)
    /\ \E i \in 0..(NumRow - 2) : ~OwesContinuation(i)

\* C2: convertExecArgs accepts a batch only when the argument count is a
\* positive multiple of the field count; for every other argument count,
\* zero included, it returns the arity error carrying both counts, returns
\* no list and converts no argument.
C2_PositiveMultiple ==
    (op = "exec" /\ NumField > 0) =>
        LET positive == Len(nvargs0) > 0 /\ Len(nvargs0) % NumField = 0 IN
        ~positive =>
            /\ res.st = "err"
            /\ res.err = Error("arity", 0, "", Len(nvargs0), NumField)
            /\ res.nil
            /\ log = <<>>
            /\ nvargs = nvargs0

(***************************************************************************)
(* What the specification says of a value, stated apart from the code.     *)
(***************************************************************************)
\* nil, or a pointer chain ending in nil
RECURSIVE SemanticallyNull(_)
SemanticallyNull(v) ==
    \/ v.k = "nil"
    \/ v.k \in {"ptr", "valuerptr"} /\ SemanticallyNull(v.to)

\* a producer that yields an output
Produces(v) == v.k \in {"valuer", "valuerptr"}

\* a producer is replaced by its output until a value is semantically null
\* or is not a producer (n bounds the number of replacements)
RECURSIVE UnwrappedWithin(_, _)
UnwrappedWithin(v, n) ==
    IF n = 0 \/ SemanticallyNull(v) \/ ~Produces(v) THEN v
    ELSE UnwrappedWithin(v.out, n - 1)
FullyUnwrapped(v) == UnwrappedWithin(v, MaxDepth + 2)

\* F.Convert of the fully unwrapped v, a LobInDescriptor primed once
ConvertedAndPrimed(field, v) ==
    LET c == Convert(field, FullyUnwrapped(v)).val IN
    IF c.k = "lob" THEN FetchNext(c, lobChunkSize).val ELSE c

\* the events of kind ev, and those at position at
EventsOf(ev) == SelectSeq(log, LAMBDA e : e.ev = ev)
EventsAt(ev, at) == SelectSeq(log, LAMBDA e : e.ev = ev /\ e.at = at)

\* the number of In fields among the first i
InIndex(i) == Cardinality({m \in 1..i : fields[m].in})

\* C3: convertCallArgs converts the destination of an in-capable output
\* wrapper: for every field with In set whose argument is an sql.Out with
\* In = true, after a successful call the entry appended to inArgs and the
\* caller's slot carry field.Convert of the unwrapped Dest, and a converted
\* LobInDescr has had FetchNext invoked exactly once.
C3_OutDestConverted ==
    Accepted("call") =>
        \A i \in 1..Len(fields) :
            (fields[i].in /\ nvargs0[i].Name = "" /\ nvargs0[i].Value.k = "out"
                /\ nvargs0[i].Value.in) =>
                LET want == ConvertedAndPrimed(fields[i], nvargs0[i].Value.dest)
                    got == res.callArgs.inArgs[InIndex(i)].Value
                IN /\ got.k = "out" /\ got.dest = want
                   /\ nvargs[i].Value = got
                   /\ want.k = "lob" => Len(EventsAt("FetchNext", i - 1)) = 1

C5_QueryConverted ==
    Accepted("query") =>
        /\ Len(nvargs0) = Len(fields)
        /\ Len(nvargs) = Len(nvargs0)
        /\ \A i \in 1..Len(nvargs) :
              /\ nvargs[i].Value = ConvertedAndPrimed(fields[i], nvargs0[i].Value)
              /\ Len(EventsAt("FetchNext", i - 1)) =
                    IF nvargs[i].Value.k = "lob" THEN 1 ELSE 0
              /\ nvargs[i].Value.k = "lob" => nvargs[i].Value.fetched = 1
        /\ EventsOf("Convert") =
              [i \in 1..Len(fields) |->
                  Event("Convert", i - 1, FullyUnwrapped(nvargs0[i].Value))]

\* an accepted query whose argument is a producer of a producer
C5_Witness ==
    /\ Accepted("query")
    /\ \E i \in 1..Len(nvargs0) :
          /\ nvargs0[i].Value.k = "valuer"
          /\ nvargs0[i].Value.out.k = "valuer"
          /\ nvargs[i].Value = Converted(fields[i].tc, FullyUnwrapped(nvargs0[i].Value))

\* the argument positions in scan order, and the field of position k
Positions == 0..(Len(nvargs0) - 1)
FieldAt(k) == fields[(k % NumField) + 1]
InputOnlyOp == op \in {"exec", "query"}

\* position k breaks a rule of the input-only, positional-only modes
Offends(k) ==
    \/ FieldAt(k).out
    \/ nvargs0[k + 1].Value.k = "out"
    \/ nvargs0[k + 1].Name # ""
FirstOffender == CHOOSE k \in Positions : Offends(k) /\ \A m \in 0..(k - 1) : ~Offends(m)
RejectionKinds == {"outField", "outArg", "named"}

\* the arity check of the mode passes
ArityPasses ==
    IF op = "exec" THEN NumField > 0 /\ Len(nvargs0) % NumField = 0
    ELSE Len(nvargs0) = NumField

\* unwrapping, conversion and priming of value v for field f all succeed
ConvertsCleanly(f, v) ==
    LET u == FullyUnwrapped(v) IN
    /\ u.k \notin {"valuererr", "valuerself"}
    /\ Convert(f, u).ok
    /\ Convert(f, u).val.k = "lob" => FetchNext(Convert(f, u).val, lobChunkSize).ok

\* C6 as claimed: a call of convertExecArgs or convertQueryArgs in which any
\* field has Out direction, any argument value is an sql.Out or any argument
\* has a non-empty Name never succeeds, the error returned is the one for
\* the first offending position in scan order, and no later position is
\* converted or LOB-primed.
C6_FirstOffenderAlways ==
    (InputOnlyOp /\
        (\/ \E i \in 1..Len(fields) : fields[i].out
         \/ \E k \in Positions : nvargs0[k + 1].Value.k = "out" \/ nvargs0[k + 1].Name # "")) =>
        /\ res.st = "err"
        /\ NumField > 0
        /\ \E k \in Positions : Offends(k)
        /\ res.err.kind \in RejectionKinds
        /\ res.err.at = FirstOffender
        /\ \A m \in 1..Len(log) : log[m].at <= FirstOffender

\* C6 as amended: a call that passes the arity check and has an offending
\* argument position never succeeds; it stops at or before the first
\* offending position k: with the rejection of k when every earlier position
\* unwraps, converts and primes without failure, and else with a conversion
\* or LOB error of an earlier position or in an unwrap loop that has no end;
\* neither k nor a later position is converted or LOB-primed, and every
\* slot from k on keeps its value.
C6_InputOnly ==
    (InputOnlyOp /\ ArityPasses /\ \E k \in Positions : Offends(k)) =>
        LET k == FirstOffender
            clean == \A m \in 0..(k - 1) : ConvertsCleanly(FieldAt(m), nvargs0[m + 1].Value)
        IN /\ res.st \in {"err", "hang"}
           /\ res.nil
           /\ clean =>
                 /\ res.st = "err"
                 /\ res.err.at = k
                 /\ res.err.kind =
                       IF FieldAt(k).out THEN "outField"
                       ELSE IF nvargs0[k + 1].Value.k = "out" THEN "outArg"
                       ELSE "named"
                 /\ \A m \in 0..(k - 1) : Len(EventsAt("Convert", m)) = 1
           /\ ~clean =>
                 \/ res.st = "err" /\ res.err.kind \in {"conversion", "lob"} /\ res.err.at < k
                 \/ res.st = "hang"
           /\ \A m \in 1..Len(log) : log[m].at < k
           /\ \A m \in (k + 1)..Len(nvargs0) : nvargs[m] = nvargs0[m]

\* a positional row is converted, a LOB of it primed, and the first argument
\* of the next row, a named one, is rejected
C6_Witness ==
    /\ op = "exec" /\ ArityPasses /\ NumRow >= 2
    /\ res.st = "err" /\ res.err.kind = "named"
    /\ res.err.at = NumField
    /\ Len(EventsOf("FetchNext")) >= 1

\* the role matrix of field i, and the rule of a trailing argument
RoleFits(i) ==
    LET f == fields[i]
        v == nvargs0[i].Value
    IN IF f.in /\ ~f.out THEN v.k # "out" \/ v.in
       ELSE IF ~f.in /\ f.out THEN v.k = "out" /\ v.dest.k # "rows"
       ELSE v.k = "out" /\ v.in
IsTableArg(v) == v.k = "out" /\ v.dest.k = "rows"

\* the value convertCallArgs has to convert for field i, if any
ToConvert(i) ==
    LET v == nvargs0[i].Value IN
    IF ~fields[i].in \/ (v.k = "out" /\ ~v.in) THEN {}
    ELSE IF v.k = "out" THEN {v.dest}
    ELSE {v}

\* |A| >= |F|, positional arguments, a direction on every field, and no
\* failing conversion or FetchNext
CallPremises ==
    /\ Len(nvargs0) >= Len(fields)
    /\ \A k \in 1..Len(nvargs0) : nvargs0[k].Name = ""
    /\ \A i \in 1..Len(fields) : fields[i].in \/ fields[i].out
    /\ \A i \in 1..Len(fields) : \A v \in ToConvert(i) : ConvertsCleanly(fields[i], v)

FieldNames == {fields[i].name : i \in 1..Len(fields)}
NamedPermutation ==
    /\ Len(nvargs0) = Len(fields)
    /\ \A i \in 1..Len(fields) : fields[i].in /\ ~fields[i].out /\ fields[i].name # ""
    /\ \A i, j \in 1..Len(fields) : i # j => fields[i].name # fields[j].name
    /\ {nvargs0[k].Name : k \in 1..Len(nvargs0)} = FieldNames
    /\ \A k \in 1..Len(nvargs0) :
          /\ nvargs0[k].Value.k = "prim"
          /\ \A i \in 1..Len(fields) : Convert(fields[i], nvargs0[k].Value).ok

\* slot i holds a name that is not the name of field i
Misnamed(i) == nvargs[i].Name # "" /\ nvargs[i].Name # fields[i].name

\* C8: for such a permutation convertCallArgs succeeds and inArgs[i] has the
\* name of F[i] and F[i].Convert of the value supplied under that name; and
\* whenever the argument at step i, after the reordering, has a non-empty
\* name other than that of F[i], the call fails with the unknown-name error
\* naming it (slot i is final once step i has reordered: no call succeeds
\* with a misnamed slot, and a call that stops at a misnamed slot stops
\* with that error).
C8_NamedBinding ==
    op = "call" =>
        /\ NamedPermutation =>
              /\ res.st = "ok"
              /\ Len(res.callArgs.inArgs) = Len(fields)
              /\ \A i \in 1..Len(fields) :
                    \E k \in 1..Len(nvargs0) :
                        /\ nvargs0[k].Name = fields[i].name
                        /\ res.callArgs.inArgs[i].Name = fields[i].name
                        /\ res.callArgs.inArgs[i].Value =
                              Convert(fields[i], nvargs0[k].Value).val
        /\ res.st = "ok" => \A i \in 1..Len(fields) : ~Misnamed(i)
        /\ (res.st = "err" /\ Len(nvargs0) >= Len(fields)) =>
              /\ \A i \in 1..Len(fields) :
                    (res.err.at = i - 1 /\ Misnamed(i)) =>
                        res.err = Error("argName", i - 1, nvargs[i].Name, 0, 0)
              /\ res.err.kind = "argName" =>
                    res.err.at < Len(fields) /\ Misnamed(res.err.at + 1)

\* three named arguments given in the reverse of the declared order
C8_Witness ==
    /\ Accepted("call") /\ NamedPermutation
    /\ Len(fields) = 3
    /\ \A k \in 1..3 : nvargs0[k].Name = fields[4 - k].name
    /\ \A k \in 1..3 : res.callArgs.inArgs[k].Value = Converted("int", Prim(4 - k))

\* C9 as claimed: the entry points change the Value of the caller's entries
\* only: Name and Ordinal at every slot are after the call what they were
\* before it.
C9_NameOrdinalFixed ==
    op \in {"exec", "query", "call"} =>
        /\ Len(nvargs) = Len(nvargs0)
        /\ \A k \in 1..Len(nvargs0) :
              nvargs[k].Name = nvargs0[k].Name /\ nvargs[k].Ordinal = nvargs0[k].Ordinal

\* the <<Ordinal, Name>> pairs of the slots S of array nv
Labels(nv, S) == {<<nv[k].Ordinal, nv[k].Name>> : k \in S}

\* C9 as amended: convertExecArgs and convertQueryArgs leave Name and Ordinal
\* of every slot as they were; convertCallArgs moves whole entries among the
\* first |F| slots, so that these slots hold a permutation of their entries
\* (each with its Name and Ordinal), and leaves the slots from |F| on as
\* they were; the fields it returns are the descriptors it was given.
C9_Frame ==
    /\ InputOnlyOp => C9_NameOrdinalFixed
    /\ op = "call" =>
          LET n == IF Len(nvargs0) < Len(fields) THEN Len(nvargs0) ELSE Len(fields) IN
          /\ Len(nvargs) = Len(nvargs0)
          /\ Labels(nvargs, 1..n) = Labels(nvargs0, 1..n)
          /\ Cardinality(Labels(nvargs, 1..n)) = n
          /\ \A k \in (n + 1)..Len(nvargs0) : nvargs[k] = nvargs0[k]
          /\ Elems(res.callArgs.inFields) \cup Elems(res.callArgs.outFields)
                \subseteq Elems(fields)

\* an accepted call that has moved a named argument to another slot
C9_Witness ==
    /\ Accepted("call")
    /\ \E k \in 1..Len(nvargs) : nvargs[k].Ordinal # k /\ nvargs[k].Name # ""

\* the first index from p on, 0-based, of an entry of nv named n
Matches(nv, p, n) == {i \in p..(Len(nv) - 1) : nv[i + 1].Name = n}
FirstMatch(nv, p, n) == CHOOSE i \in Matches(nv, p, n) : \A m \in Matches(nv, p, n) : i <= m
\* nv with entry i moved to p and the entries p..i-1 shifted right by one
FirstMatchMoved(nv, p, i) ==
    [m \in 1..Len(nv) |->
        IF m = p + 1 THEN nv[i + 1]
        ELSE IF p + 1 < m /\ m <= i + 1 THEN nv[m - 1]
        ELSE nv[m]]

\* C10: reorderNVArgs(p, t, A), t a name, moves only the first entry at an
\* index >= p named t to position p, shifting the entries in between right by one; it
\* changes nothing when that entry is at p or no entry matches; a second
\* entry of the same name is not moved.
C10_FirstMatchOnly ==
    (op = "reorder" /\ name # "") =>
        IF Matches(nvargs0, pos, name) = {} THEN nvargs = nvargs0
        ELSE nvargs = FirstMatchMoved(nvargs0, pos, FirstMatch(nvargs0, pos, name))

\* a value that yields a producer however often it is replaced by its output
RECURSIVE YieldsForever(_)
YieldsForever(v) ==
    /\ ~SemanticallyNull(v)
    /\ \/ v.k = "valuerself"
       \/ Produces(v) /\ YieldsForever(v.out)

\* the Value() calls and the Convert calls of the call, in order
ValueCalls == EventsOf("Value")
ConvertCalls == EventsOf("Convert")

\* the unwrap loop has done what it may do short of ending on every argument:
\* Value() only on a producer that is not semantically null, Convert only on
\* a value that is semantically null or not a producer, and after a failed
\* Value() the field's conversion error and no Convert at that position
UnwrapStepsSound ==
    /\ \A i \in 1..Len(ValueCalls) :
          /\ ~SemanticallyNull(ValueCalls[i].arg)
          /\ ValueCalls[i].arg.k \in {"valuer", "valuererr", "valuerself", "valuerptr"}
    /\ \A i \in 1..Len(ConvertCalls) :
          \/ SemanticallyNull(ConvertCalls[i].arg)
          \/ ConvertCalls[i].arg.k \notin {"valuer", "valuererr", "valuerself", "valuerptr"}
    /\ \A i \in 1..Len(ValueCalls) :
          ValueCalls[i].arg.k = "valuererr" =>
             /\ res.st = "err"
             /\ res.err.kind = "conversion" /\ res.err.at = ValueCalls[i].at
             /\ EventsAt("Convert", ValueCalls[i].at) = <<>>

\* C11: the unwrap loop of convertArg ends on every argument: Value() is never
\* called on a semantically null value, the loop stops as soon as the value is
\* null or not a producer, a producer's error is returned without a call of
\* Convert, and a chain that keeps yielding producers (a producer
\* that yields itself included) ends in an explicit error, never in a loop
\* that goes on forever.
C11_UnwrapTerminates ==
    op = "query" =>
        /\ res.st \in {"ok", "err"}
        /\ UnwrapStepsSound
        /\ \A i \in 1..Len(ValueCalls) :
              YieldsForever(ValueCalls[i].arg) =>
                 /\ res.st = "err"
                 /\ EventsAt("Convert", ValueCalls[i].at) = <<>>

\* the same, of the calls that return
C11_ReturningCallsSound == (op = "query" /\ res.st # "hang") => UnwrapStepsSound

====
